---- MODULE Spec2Model ----
(***************************************************************************)
(* State-machine model of constraint_solver/booleans.cc: the SatPropagator *)
(* constraint (literal registry, bound-literal trail, Post and             *)
(* InitialPropagate) and the seven AddBool... encoder functions.           *)
(*                                                                         *)
(* A Minisat literal is the integer 2*var + sign, sign = 1 meaning the     *)
(* negated literal, exactly as Minisat::mkLit builds it.                   *)
(***************************************************************************)
EXTENDS Integers, Sequences, FiniteSets, TLC

\* ------------------------------------------------------------------ bounds
\* Longest operand vector handed to an N-ary encoder.
MaxArity == 2
\* Encoder calls made while the model is built (specification Spec).
MaxCalls == 1
\* Choice points the host search may have open at once.
MaxDepth == 1

\* ------------------------------------------------------------ host objects
\* Host variables whose type is boolean (domain {0,1}).
BoolVars == {"a", "b", "t"}
\* A host variable with three possible values: never a boolean reference.
TriVars == {"w"}
HostVars == BoolVars \cup TriVars

\* An IntExpr handed to the propagator: a host variable, or its negation
\* (1 - var).
Plain(v) == [var |-> v, neg |-> FALSE]
Negated(v) == [var |-> v, neg |-> TRUE]
\* Operands offered to the encoders while the model is built: a boolean
\* variable in both polarities, a second one, and the three-valued one.
Exprs == {Plain("a"), Negated("a"), Plain("b"), Plain("w")}
\* Elements offered for the operand vectors of the N-ary encoders.
VecExprs == {Negated("a"), Plain("b"), Plain("w")}
\* Operands offered where an equality and a negation are both encoded.
PairExprs == {Plain("a"), Negated("a"), Plain("b")}
\* Operands offered to the encoders of a model that is then searched.
SearchExprs == {Plain("a"), Negated("a"), Plain("b"), Plain("t")}

\* Operand vectors of the N-ary encoders.
RECURSIVE SeqsUpTo(_, _)
SeqsUpTo(S, n) ==
  IF n = 0 THEN {<<>>}
  ELSE LET shorter == SeqsUpTo(S, n - 1)
       IN  shorter \cup {Append(s, e) : s \in shorter, e \in S}

Unbound == -1

\* ---------------------------------------------------------------- Minisat
lit_Error == -1

mkLit(var, sign) == var + var + (IF sign THEN 1 ELSE 0)

\* operator~ on a literal: flips the low bit of 2*var + sign.
Neg(p) == IF p % 2 = 0 THEN p + 1 ELSE p - 1

LitVar(p) == p \div 2
LitSign(p) == p % 2 = 1

\* A literal holds under an assignment m of the engine variables when the
\* variable's value differs from the sign bit.
LitTrue(m, p) == m[LitVar(p)] = ~LitSign(p)

\* Minisat::Solver::solve(assumps): is there an assignment of the n engine
\* variables under which every clause of db and every assumption holds.
Solve(n, db, assumps) ==
  \E m \in [0 .. n - 1 -> BOOLEAN] :
     /\ \A i \in 1 .. Len(assumps) :
           LitVar(assumps[i]) \in 0 .. n - 1 /\ LitTrue(m, assumps[i])
     /\ \A c \in 1 .. Len(db) :
           \E i \in 1 .. Len(db[c]) :
              LitVar(db[c][i]) \in 0 .. n - 1 /\ LitTrue(m, db[c][i])

\* ------------------------------------------------------------------ state
VARIABLES
  vars_,               \* std::vector<IntVar*> vars_ (position i+1 = index i)
  indices_,            \* hash_map<IntVar*, Minisat::Var> indices_
  nVars,               \* minisat_.nVars()
  clauses,             \* minisat_'s clause database, in insertion order
  bound_literals_,     \* std::vector<Minisat::Lit> bound_literals_
  num_bound_literals_, \* NumericalRev<int> num_bound_literals_
  val,                 \* host: value of each boolean variable, or Unbound
  stack,               \* host: open choice points (saved val and counter)
  demons,              \* host: per variable, the indexes of the demons on it
  phase,               \* "build", "posted" (Post done), "search"
  failed,              \* a branch failure (Solver::Fail) is pending
  calls,               \* history: the encoder calls made, with their results
  fetched,             \* history: the last direct Literal fetch
  lastAssumps,         \* history: the assumption lists the last step gave
                       \*          to solve, in call order
  undone,              \* history: the bind undone by the last backtrack
  delivered            \* history: the literals of the bound callbacks run
                       \*          on the current branch, in delivery order

vars == <<vars_, indices_, nVars, clauses, bound_literals_,
          num_bound_literals_, val, stack, demons, phase, failed, calls,
          fetched, lastAssumps, undone, delivered>>

registry == <<vars_, indices_, nVars>>
trailVars == <<bound_literals_, num_bound_literals_>>
hostVars == <<val, stack, demons, phase, failed>>
history == <<fetched, lastAssumps, undone, delivered>>

NoFetch == [expr |-> [var |-> "none", neg |-> FALSE], lit |-> lit_Error]
NoBind == [var |-> "none", value |-> Unbound, depth |-> -1, prefix |-> <<>>,
           afterFailure |-> FALSE]

Init ==
  /\ vars_ = <<>>
  /\ indices_ = <<>>
  /\ nVars = 0
  /\ clauses = <<>>
  /\ bound_literals_ = <<>>
  /\ num_bound_literals_ = 0
  /\ val = [v \in BoolVars |-> Unbound]
  /\ stack = <<>>
  /\ demons = [v \in BoolVars |-> <<>>]
  /\ phase = "build"
  /\ failed = FALSE
  /\ calls = <<>>
  /\ fetched = NoFetch
  /\ lastAssumps = <<>>
  /\ undone = NoBind
  /\ delivered = <<>>

\* --------------------------------------------------------------- registry
\* Solver::IsBooleanVar: expr is a boolean variable or the negation of one.
IsBooleanVar(expr) == expr.var \in BoolVars

Check(expr) == IsBooleanVar(expr)

\* Mutant: the loop of Check(vector) returns after its first element.
CheckAllFirstOnly(exprs) == exprs = <<>> \/ Check(exprs[1])

CheckAll(exprs) == \A i \in 1 .. Len(exprs) : Check(exprs[i])

Reg == [vars_ |-> vars_, indices_ |-> indices_, nVars |-> nVars]

\* Mutant: Literal without the ContainsKey test, allocating on every fetch.
LiteralAlwaysNew(R, expr) ==
  IF ~IsBooleanVar(expr)
  THEN [reg |-> R, lit |-> lit_Error]
  ELSE [reg |-> [vars_ |-> Append(R.vars_, expr.var),
                 indices_ |-> [v \in DOMAIN R.indices_ \cup {expr.var} |->
                                 IF v = expr.var THEN R.nVars
                                 ELSE R.indices_[v]],
                 nVars |-> R.nVars + 1],
        lit |-> mkLit(R.nVars, expr.neg)]

\* Mutant: Literal registering a new variable without vars_.push_back.
LiteralNoPush(R, expr) ==
  IF ~IsBooleanVar(expr)
  THEN [reg |-> R, lit |-> lit_Error]
  ELSE IF expr.var \in DOMAIN R.indices_
  THEN [reg |-> R, lit |-> mkLit(R.indices_[expr.var], expr.neg)]
  ELSE [reg |-> [vars_ |-> R.vars_,
                 indices_ |-> [v \in DOMAIN R.indices_ \cup {expr.var} |->
                                 IF v = expr.var THEN R.nVars
                                 ELSE R.indices_[v]],
                 nVars |-> R.nVars + 1],
        lit |-> mkLit(R.nVars, expr.neg)]

\* Literal(expr) run on registry R: the registry afterwards and the literal
\* returned.
Literal(R, expr) ==
  IF ~IsBooleanVar(expr)
  THEN [reg |-> R, lit |-> lit_Error]
  ELSE IF expr.var \in DOMAIN R.indices_
  THEN [reg |-> R, lit |-> mkLit(R.indices_[expr.var], expr.neg)]
  ELSE LET var == R.nVars
       IN  [reg |-> [vars_ |-> Append(R.vars_, expr.var),
                     indices_ |-> [v \in DOMAIN R.indices_ \cup {expr.var} |->
                                     IF v = expr.var THEN var
                                     ELSE R.indices_[v]],
                     nVars |-> R.nVars + 1],
            lit |-> mkLit(var, expr.neg)]

\* The loop "lits[i] = sat->Literal(vars[i])" of the N-ary encoders.
RECURSIVE Literals(_, _)
Literals(R, exprs) ==
  IF exprs = <<>> THEN [reg |-> R, lits |-> <<>>]
  ELSE LET head == Literals(R, SubSeq(exprs, 1, Len(exprs) - 1))
           last == Literal(head.reg, exprs[Len(exprs)])
       IN  [reg |-> last.reg, lits |-> Append(head.lits, last.lit)]

\* Mutant: AddBoolAndArrayEqualFalse without the complement of its literals.
NegAllNone(lits) == lits

NegAll(lits) == [i \in 1 .. Len(lits) |-> Neg(lits[i])]

SetReg(R) ==
  /\ vars_' = R.vars_
  /\ indices_' = R.indices_
  /\ nVars' = R.nVars

\* Mutant: AddClause overwriting the database instead of appending to it.
AddClausesReplace(cs) == clauses' = cs

\* AddClause in its four arities: the clause is appended to the database.
AddClauses(cs) == clauses' = clauses \o cs

Record(op, args, result) ==
  calls' = Append(calls, [op |-> op, args |-> args, result |-> result])

\* --------------------------------------------------------------- encoders
\* Mutant: AddBoolEq adds only the first of its two clauses.
EqClausesOneWay(l, r) == << <<Neg(l), r>> >>

EqClauses(l, r) == << <<Neg(l), r>>, <<l, Neg(r)>> >>

AddBoolEq(left, right) ==
  IF ~Check(left) \/ ~Check(right)
  THEN /\ Record("AddBoolEq", <<left, right>>, FALSE)
       /\ UNCHANGED <<registry, clauses>>
  ELSE LET l == Literal(Reg, left)
           r == Literal(l.reg, right)
       IN  /\ SetReg(r.reg)
           /\ AddClauses(EqClauses(l.lit, r.lit))
           /\ Record("AddBoolEq", <<left, right>>, TRUE)

LeClauses(l, r) == << <<Neg(l), r>> >>

AddBoolLe(left, right) ==
  IF ~Check(left) \/ ~Check(right)
  THEN /\ Record("AddBoolLe", <<left, right>>, FALSE)
       /\ UNCHANGED <<registry, clauses>>
  ELSE LET l == Literal(Reg, left)
           r == Literal(l.reg, right)
       IN  /\ SetReg(r.reg)
           /\ AddClauses(LeClauses(l.lit, r.lit))
           /\ Record("AddBoolLe", <<left, right>>, TRUE)

\* Mutant: AddBoolNot with its second clause copied from AddBoolEq.
NotClausesCopied(l, r) == << <<Neg(l), Neg(r)>>, <<l, Neg(r)>> >>

NotClauses(l, r) == << <<Neg(l), Neg(r)>>, <<l, r>> >>

AddBoolNot(left, right) ==
  IF ~Check(left) \/ ~Check(right)
  THEN /\ Record("AddBoolNot", <<left, right>>, FALSE)
       /\ UNCHANGED <<registry, clauses>>
  ELSE LET l == Literal(Reg, left)
           r == Literal(l.reg, right)
       IN  /\ SetReg(r.reg)
           /\ AddClauses(NotClauses(l.lit, r.lit))
           /\ Record("AddBoolNot", <<left, right>>, TRUE)

\* The function returns false on its first line: the validation and the
\* clause construction below it are never executed.
AddBoolAndArrayEqVar(exprs, target) ==
  /\ Record("AddBoolAndArrayEqVar", Append(exprs, target), FALSE)
  /\ UNCHANGED <<registry, clauses>>

\* Mutant: AddBoolAndEqVar without the two binary clauses.
AndEqVarClausesShort(l, r, t) == << <<Neg(l), Neg(r), t>> >>

AndEqVarClauses(l, r, t) ==
  << <<Neg(l), Neg(r), t>>, <<l, Neg(t)>>, <<r, Neg(t)>> >>

\* The success path ends without a return statement: the value the caller
\* reads is indeterminate, so either boolean may be reported.
AddBoolAndEqVar(left, right, target) ==
  IF ~Check(left) \/ ~Check(right) \/ ~Check(target)
  THEN /\ Record("AddBoolAndEqVar", <<left, right, target>>, FALSE)
       /\ UNCHANGED <<registry, clauses>>
  ELSE LET l == Literal(Reg, left)
           r == Literal(l.reg, right)
           t == Literal(r.reg, target)
       IN  /\ SetReg(t.reg)
           /\ AddClauses(AndEqVarClauses(l.lit, r.lit, t.lit))
           /\ \E result \in BOOLEAN :
                 Record("AddBoolAndEqVar", <<left, right, target>>, result)

AddBoolOrArrayEqualTrue(exprs) ==
  IF ~CheckAll(exprs)
  THEN /\ Record("AddBoolOrArrayEqualTrue", exprs, FALSE)
       /\ UNCHANGED <<registry, clauses>>
  ELSE LET ls == Literals(Reg, exprs)
       IN  /\ SetReg(ls.reg)
           /\ AddClauses(<<ls.lits>>)
           /\ Record("AddBoolOrArrayEqualTrue", exprs, FALSE)

AddBoolAndArrayEqualFalse(exprs) ==
  IF ~CheckAll(exprs)
  THEN /\ Record("AddBoolAndArrayEqualFalse", exprs, FALSE)
       /\ UNCHANGED <<registry, clauses>>
  ELSE LET ls == Literals(Reg, exprs)
       IN  /\ SetReg(ls.reg)
           /\ AddClauses(<<NegAll(ls.lits)>>)
           /\ Record("AddBoolAndArrayEqualFalse", exprs, FALSE)

\* AddEmptyClause(): the always-false clause.
AddEmptyClause ==
  /\ phase = "build"
  /\ \A c \in 1 .. Len(clauses) : clauses[c] # <<>>
  /\ AddClauses(<< <<>> >>)
  /\ UNCHANGED <<registry, trailVars, hostVars, calls, history>>

\* A direct call of the public method Literal(expr).
LiteralCall ==
  /\ phase = "build"
  /\ \E expr \in Exprs :
        LET r == Literal(Reg, expr)
        IN  /\ SetReg(r.reg)
            /\ fetched' = [expr |-> expr, lit |-> r.lit]
  /\ UNCHANGED <<clauses, trailVars, hostVars, calls, lastAssumps, undone,
                 delivered>>

\* --------------------------------------- model construction (any operands)
Building == phase = "build" /\ Len(calls) < MaxCalls
EncFrame == UNCHANGED <<trailVars, hostVars, history>>

CallAddBoolEq ==
  Building /\ EncFrame /\ \E l, r \in Exprs : AddBoolEq(l, r)
CallAddBoolLe ==
  Building /\ EncFrame /\ \E l, r \in Exprs : AddBoolLe(l, r)
CallAddBoolNot ==
  Building /\ EncFrame /\ \E l, r \in Exprs : AddBoolNot(l, r)
CallAddBoolAndEqVar ==
  Building /\ EncFrame /\ \E l, r, t \in Exprs : AddBoolAndEqVar(l, r, t)
CallAddBoolAndArrayEqVar ==
  Building /\ EncFrame
    /\ \E es \in SeqsUpTo(VecExprs, MaxArity), t \in Exprs :
          AddBoolAndArrayEqVar(es, t)
CallAddBoolOrArrayEqualTrue ==
  Building /\ EncFrame
    /\ \E es \in SeqsUpTo(VecExprs, MaxArity) : AddBoolOrArrayEqualTrue(es)
CallAddBoolAndArrayEqualFalse ==
  Building /\ EncFrame
    /\ \E es \in SeqsUpTo(VecExprs, MaxArity) : AddBoolAndArrayEqualFalse(es)

Next ==
  \/ LiteralCall
  \/ CallAddBoolEq
  \/ CallAddBoolLe
  \/ CallAddBoolNot
  \/ CallAddBoolAndEqVar
  \/ CallAddBoolAndArrayEqVar
  \/ CallAddBoolOrArrayEqualTrue
  \/ CallAddBoolAndArrayEqualFalse

Spec == Init /\ [][Next]_vars

\* ------------------------------------------------- checker and lifecycle
\* Line 86: the literal enqueued for engine variable index when the host
\* variable holds value; the value is passed as mkLit's sign argument.
BoundLit(index, value) == mkLit(index, value # 0)

\* Mutant: VariableBound without the truncation of the trail.
ResizeKeep(trail, n) == trail

\* std::vector::resize(n): truncates, or pads with value-initialized
\* literals (x = 0).
Resize(trail, n) ==
  IF n <= Len(trail) THEN SubSeq(trail, 1, n)
  ELSE trail \o [i \in 1 .. n - Len(trail) |-> 0]

\* The state a bound callback works on during one host step: the trail and
\* its counter, the pending failure, the host's values, and the record of
\* the solve calls and of the callbacks run.
Checker == [trail |-> bound_literals_, num |-> num_bound_literals_,
            failed |-> failed, val |-> val, solved |-> <<>>,
            delivered |-> delivered]

\* Mutant: VariableBound without num_bound_literals_.Incr.
VariableBoundNoIncr(S, V, index) ==
  LET lit == BoundLit(index, V[vars_[index + 1]])
      trail == Append(Resize(S.trail, S.num), lit)
  IN  [trail |-> trail,
       num |-> S.num,
       failed |-> ~Solve(nVars, clauses, trail),
       val |-> V,
       solved |-> Append(S.solved, trail),
       delivered |-> Append(S.delivered, lit)]

\* Mutant: VariableBound fixing every unbound registered variable whose
\* negated literal the engine refutes under the new trail.
VariableBoundAssigning(S, V, index) ==
  LET lit == BoundLit(index, V[vars_[index + 1]])
      trail == Append(Resize(S.trail, S.num), lit)
  IN  [trail |-> trail,
       num |-> S.num + 1,
       failed |-> ~Solve(nVars, clauses, trail),
       val |-> [u \in DOMAIN V |->
                  IF /\ V[u] = Unbound
                     /\ u \in DOMAIN indices_
                     /\ Solve(nVars, clauses, trail)
                     /\ ~Solve(nVars, clauses,
                               Append(trail, mkLit(indices_[u], TRUE)))
                  THEN 1 ELSE V[u]],
       solved |-> Append(S.solved, trail),
       delivered |-> Append(S.delivered, lit)]

\* VariableBound(index) with the host values V: truncate the trail to the
\* counter, increment the counter, push the literal, solve, Fail on UNSAT.
\* The host's values are read (Value()) and never written.
VariableBound(S, V, index) ==
  LET lit == BoundLit(index, V[vars_[index + 1]])
      trail == Append(Resize(S.trail, S.num), lit)
  IN  [trail |-> trail,
       num |-> S.num + 1,
       failed |-> ~Solve(nVars, clauses, trail),
       val |-> V,
       solved |-> Append(S.solved, trail),
       delivered |-> Append(S.delivered, lit)]

SetChecker(S) ==
  /\ bound_literals_' = S.trail
  /\ num_bound_literals_' = S.num
  /\ failed' = S.failed
  /\ val' = S.val
  /\ lastAssumps' = S.solved
  /\ delivered' = S.delivered

\* The host runs the demons attached to a variable, in attachment order;
\* Fail() unwinds the propagation, so nothing runs after a failure.
RECURSIVE RunDemons(_, _, _)
RunDemons(S, V, idxs) ==
  IF idxs = <<>> \/ S.failed THEN S
  ELSE LET after == VariableBound(S, V, Head(idxs))
       IN  RunDemons(after, after.val, Tail(idxs))

\* Mutant: Post giving every demon the index of the first variable.
RECURSIVE PostLoopIndexZero(_, _)
PostLoopIndexZero(D, i) ==
  IF i > Len(vars_) THEN D
  ELSE PostLoopIndexZero([D EXCEPT ![vars_[i]] = Append(@, 0)], i + 1)

\* Post(): one demon per entry of vars_, carrying indices_[vars_[i]],
\* attached to vars_[i].
RECURSIVE PostLoop(_, _)
PostLoop(D, i) ==
  IF i > Len(vars_) THEN D
  ELSE PostLoop([D EXCEPT ![vars_[i]] = Append(@, indices_[vars_[i]])], i + 1)

Post ==
  /\ phase = "build"
  /\ calls # <<>>
  /\ demons' = PostLoop(demons, 1)
  /\ phase' = "posted"
  /\ UNCHANGED <<registry, clauses, trailVars, val, stack, failed, calls,
                 history>>

\* Mutant: InitialPropagate going on with its loop after a failure.
RECURSIVE ReplayAll(_, _)
ReplayAll(S, i) ==
  IF i > Len(vars_) THEN S
  ELSE IF S.val[vars_[i]] # Unbound
       THEN ReplayAll(VariableBound(S, S.val, indices_[vars_[i]]), i + 1)
       ELSE ReplayAll(S, i + 1)

\* Mutant: InitialPropagate without the Bound() test.
RECURSIVE ReplayUnchecked(_, _)
ReplayUnchecked(S, i) ==
  IF i > Len(vars_) \/ S.failed THEN S
  ELSE ReplayUnchecked(VariableBound(S, S.val, indices_[vars_[i]]), i + 1)

\* InitialPropagate(): the loop over vars_, from position i on.
RECURSIVE Replay(_, _)
Replay(S, i) ==
  IF i > Len(vars_) \/ S.failed THEN S
  ELSE IF S.val[vars_[i]] # Unbound
       THEN Replay(VariableBound(S, S.val, indices_[vars_[i]]), i + 1)
       ELSE Replay(S, i + 1)

InitialPropagate ==
  /\ phase = "posted"
  /\ SetChecker(Replay(Checker, 1))
  /\ phase' = "search"
  /\ UNCHANGED <<registry, clauses, stack, demons, calls, fetched, undone>>

\* ------------------------------------------------------------------- host
\* The host fixes an unbound boolean variable; the demons on it run before
\* control returns to the search.
HostBind ==
  /\ phase \in {"build", "search"}
  /\ ~failed
  /\ \E v \in BoolVars, b \in {0, 1} :
        /\ val[v] = Unbound
        /\ LET V == [val EXCEPT ![v] = b]
           IN  SetChecker(RunDemons([Checker EXCEPT !.val = V], V,
                                    demons[v]))
  /\ UNCHANGED <<registry, clauses, stack, demons, phase, calls, fetched,
                 undone>>

\* The host opens a choice point: values and the reversible counter are
\* restored when the search comes back to it.
HostChoice ==
  /\ phase = "search"
  /\ ~failed
  /\ Len(stack) < MaxDepth
  /\ stack' = Append(stack, [val |-> val, num |-> num_bound_literals_,
                             delivered |-> delivered])
  /\ UNCHANGED <<registry, clauses, trailVars, val, demons, phase, failed,
                 calls, history>>

\* The host backtracks to the last choice point, after a failure or to
\* explore the sibling branch.  bound_literals_ is not the host's: only the
\* counter is restored.
HostBacktrack ==
  /\ phase = "search"
  /\ stack # <<>>
  /\ LET top == stack[Len(stack)]
     IN  /\ val' = top.val
         /\ num_bound_literals_' = top.num
         /\ delivered' = top.delivered
         /\ undone' =
              IF num_bound_literals_ > top.num
              THEN LET A == vars_[LitVar(bound_literals_[top.num + 1]) + 1]
                   IN  [var |-> A, value |-> val[A], depth |-> top.num,
                        prefix |-> SubSeq(bound_literals_, 1, top.num),
                        afterFailure |-> failed]
              ELSE NoBind
  /\ stack' = SubSeq(stack, 1, Len(stack) - 1)
  /\ failed' = FALSE
  /\ lastAssumps' = <<>>
  /\ UNCHANGED <<registry, clauses, bound_literals_, demons, phase, calls,
                 fetched>>

\* ------------------------------ one relation alone, then posted and searched
Alone == phase = "build" /\ calls = <<>>

SoloAddBoolEq ==
  Alone /\ EncFrame /\ \E l, r \in SearchExprs : AddBoolEq(l, r)
SoloAddBoolLe ==
  Alone /\ EncFrame /\ \E l, r \in SearchExprs : AddBoolLe(l, r)
SoloAddBoolNot ==
  Alone /\ EncFrame /\ \E l, r \in SearchExprs : AddBoolNot(l, r)
SoloAddBoolAndEqVar ==
  Alone /\ EncFrame /\ \E l, r, t \in SearchExprs : AddBoolAndEqVar(l, r, t)
SoloAddBoolAndArrayEqVar ==
  Alone /\ EncFrame
    /\ \E es \in SeqsUpTo(SearchExprs, MaxArity), t \in SearchExprs :
          AddBoolAndArrayEqVar(es, t)
SoloAddBoolOrArrayEqualTrue ==
  Alone /\ EncFrame
    /\ \E es \in SeqsUpTo(SearchExprs, MaxArity) : AddBoolOrArrayEqualTrue(es)
SoloAddBoolAndArrayEqualFalse ==
  Alone /\ EncFrame
    /\ \E es \in SeqsUpTo(SearchExprs, MaxArity) :
          AddBoolAndArrayEqualFalse(es)

NextSearch ==
  \/ SoloAddBoolEq
  \/ SoloAddBoolLe
  \/ SoloAddBoolNot
  \/ SoloAddBoolAndEqVar
  \/ SoloAddBoolAndArrayEqVar
  \/ SoloAddBoolOrArrayEqualTrue
  \/ SoloAddBoolAndArrayEqualFalse
  \/ Post
  \/ InitialPropagate
  \/ HostBind
  \/ HostChoice
  \/ HostBacktrack

SpecSearch == Init /\ [][NextSearch]_vars

\* --------------------- an equality and a negation, then posted and searched
NoCallOf(op) == \A i \in 1 .. Len(calls) : calls[i].op # op

PairAddBoolEq ==
  /\ phase = "build" /\ NoCallOf("AddBoolEq") /\ EncFrame
  /\ \E l, r \in PairExprs : AddBoolEq(l, r)
PairAddBoolNot ==
  /\ phase = "build" /\ NoCallOf("AddBoolNot") /\ EncFrame
  /\ \E l, r \in PairExprs : AddBoolNot(l, r)

NextPair ==
  \/ PairAddBoolEq
  \/ PairAddBoolNot
  \/ AddEmptyClause
  \/ Post
  \/ InitialPropagate
  \/ HostBind
  \/ HostChoice
  \/ HostBacktrack

SpecPair == Init /\ [][NextPair]_vars

\* ------------- an equality, then registry and clauses touched on a branch
\* Literal(expr) called while the search is on a branch.
LateLiteral ==
  /\ phase = "search" /\ ~failed /\ stack # <<>>
  /\ \E expr \in {Plain("t"), Negated("a")} :
        LET r == Literal(Reg, expr)
        IN  /\ SetReg(r.reg)
            /\ fetched' = [expr |-> expr, lit |-> r.lit]
  /\ UNCHANGED <<clauses, trailVars, hostVars, calls, lastAssumps, undone,
                 delivered>>

\* AddEmptyClause() called while the search is on a branch.
LateAddEmptyClause ==
  /\ phase = "search" /\ ~failed /\ stack # <<>>
  /\ \A c \in 1 .. Len(clauses) : clauses[c] # <<>>
  /\ AddClauses(<< <<>> >>)
  /\ UNCHANGED <<registry, trailVars, hostVars, calls, history>>

NextLate ==
  \/ PairAddBoolEq
  \/ Post
  \/ InitialPropagate
  \/ HostBind
  \/ HostChoice
  \/ HostBacktrack
  \/ LateLiteral
  \/ LateAddEmptyClause

SpecLate == Init /\ [][NextLate]_vars

\* ================================================================ claims
AllBoolean(args) == \A i \in 1 .. Len(args) : IsBooleanVar(args[i])
IsCallStep == Len(calls') = Len(calls) + 1
NewCall == calls'[Len(calls')]
RegNext == [vars_ |-> vars_', indices_ |-> indices_', nVars |-> nVars']
\* The registry literal of an operand after the step.
RegLit(e) == 2 * indices_'[e.var] + (IF e.neg THEN 1 ELSE 0)
Compl(p) == IF p % 2 = 0 THEN p + 1 ELSE p - 1
Appended == SubSeq(clauses', Len(clauses) + 1, Len(clauses'))

\* C1: every encoder call reports success exactly when all of its operands
\* pass Check; no encoder reports a constant.
C1_ResultIffValid ==
  \A i \in 1 .. Len(calls) : calls[i].result = AllBoolean(calls[i].args)

\* C2: an encoder call with an operand that fails Check reports failure and
\* leaves the registry and the clause database as they were, even when other
\* operands of the call are valid and not yet registered.
C2_InvalidOperandNoEffect ==
  [][(IsCallStep /\ ~AllBoolean(NewCall.args))
       => (NewCall.result = FALSE /\ UNCHANGED <<registry, clauses>>)]_vars

C2_Witness ==
  \E i \in 1 .. Len(calls) :
     /\ calls[i].op = "AddBoolEq"
     /\ calls[i].args = <<Plain("b"), Plain("w")>>
     /\ ~calls[i].result
     /\ "b" \notin DOMAIN indices_
     /\ "a" \in DOMAIN indices_

\* C5: a registered variable keeps its engine variable for ever; a fetch of
\* a registered variable allocates nothing and changes no state; the literal
\* of v negated is the complement of the literal of v; two variables never
\* share an engine variable.
C5_RegistryBijection ==
  [][/\ \A v \in DOMAIN indices_ :
           v \in DOMAIN indices_' /\ indices_'[v] = indices_[v]
     /\ \A u, v \in DOMAIN indices_' : u # v => indices_'[u] # indices_'[v]
     /\ (calls' = calls /\ clauses' = clauses /\ phase' = "build"
           /\ val' = val)
          => LET e == fetched'.expr
             IN  /\ IsBooleanVar(e)
                      => /\ e.var \in DOMAIN indices_'
                         /\ LitVar(fetched'.lit) = indices_'[e.var]
                 /\ e.var \in DOMAIN indices_
                      => UNCHANGED <<registry, clauses, trailVars, hostVars,
                                     calls>>
     /\ \A v \in DOMAIN indices_' :
           /\ Literal(RegNext, Plain(v)).reg = RegNext
           /\ Literal(RegNext, Negated(v)).reg = RegNext
           /\ LitVar(Literal(RegNext, Plain(v)).lit) = indices_'[v]
           /\ Literal(RegNext, Negated(v)).lit
                = Compl(Literal(RegNext, Plain(v)).lit)
    ]_vars

C5_Witness ==
  /\ fetched.expr = Negated("a")
  /\ fetched.lit = 3
  /\ vars_ = <<"b", "a">>
  /\ calls # <<>>

\* C9: AddBoolAndArrayEqVar(v1..vn, Target) with all operands valid appends
\* exactly n+1 clauses: (vi OR NOT Target) for each vi, and
\* (NOT v1 OR ... OR NOT vn OR Target).
C9_AndArrayEqVarClauses ==
  [][(IsCallStep /\ NewCall.op = "AddBoolAndArrayEqVar"
        /\ AllBoolean(NewCall.args))
       => LET n == Len(NewCall.args) - 1
              vs == SubSeq(NewCall.args, 1, n)
              target == NewCall.args[n + 1]
          IN  /\ Len(clauses') = Len(clauses) + n + 1
              /\ \A i \in 1 .. n + 1 :
                    NewCall.args[i].var \in DOMAIN indices_'
              /\ {Appended[k] : k \in 1 .. n + 1}
                   = {<<RegLit(vs[i]), Compl(RegLit(target))>> : i \in 1 .. n}
                       \cup {[i \in 1 .. n + 1 |->
                                IF i <= n THEN Compl(RegLit(vs[i]))
                                ELSE RegLit(target)]}
    ]_vars

\* C10: with all operands valid, AddBoolEq appends (~L,R),(L,~R); AddBoolLe
\* appends (~L,R); AddBoolNot appends (~L,~R),(L,R); AddBoolAndEqVar appends
\* (~A,~B,T),(A,~T),(B,~T) and nothing else, each literal being the registry
\* literal of the operand polarized by the operand's negation flag.
C10_FixedArityClauses ==
  [][(IsCallStep /\ AllBoolean(NewCall.args)
        /\ NewCall.op \in {"AddBoolEq", "AddBoolLe", "AddBoolNot",
                           "AddBoolAndEqVar"})
       => /\ \A i \in 1 .. Len(NewCall.args) :
                NewCall.args[i].var \in DOMAIN indices_'
          /\ LET L == RegLit(NewCall.args[1])
                 R == RegLit(NewCall.args[2])
             IN  Appended =
                   CASE NewCall.op = "AddBoolEq"
                          -> << <<Compl(L), R>>, <<L, Compl(R)>> >>
                     [] NewCall.op = "AddBoolLe"
                          -> << <<Compl(L), R>> >>
                     [] NewCall.op = "AddBoolNot"
                          -> << <<Compl(L), Compl(R)>>, <<L, R>> >>
                     [] NewCall.op = "AddBoolAndEqVar"
                          -> LET T == RegLit(NewCall.args[3])
                             IN  << <<Compl(L), Compl(R), T>>,
                                    <<L, Compl(T)>>, <<R, Compl(T)>> >>
    ]_vars

C10_Witness ==
  /\ Len(calls) = 1
  /\ calls[1].op = "AddBoolNot"
  /\ calls[1].args = <<Negated("a"), Plain("b")>>
  /\ vars_ = <<"b", "a">>
  /\ clauses = << <<2, 1>>, <<3, 0>> >>

\* The value of an operand under an assignment m of the boolean variables.
ExprVal(m, e) == IF e.neg THEN 1 - m[e.var] ELSE m[e.var]
ArgVals(m, args) == [i \in 1 .. Len(args) |-> ExprVal(m, args[i])]
\* The relation each encoder stands for, on the operands' values.
Holds(op, x) ==
  CASE op = "AddBoolEq" -> x[1] = x[2]
    [] op = "AddBoolLe" -> x[1] <= x[2]
    [] op = "AddBoolNot" -> x[2] = 1 - x[1]
    [] op = "AddBoolAndEqVar" -> x[3] = x[1] * x[2]
    [] op = "AddBoolAndArrayEqVar"
         -> (x[Len(x)] = 1) = (\A i \in 1 .. Len(x) - 1 : x[i] = 1)
    [] op = "AddBoolOrArrayEqualTrue" -> \E i \in 1 .. Len(x) : x[i] = 1
    [] op = "AddBoolAndArrayEqualFalse" -> \E i \in 1 .. Len(x) : x[i] = 0
\* The total assignments that extend the host's current bindings.
Completions ==
  {m \in [BoolVars -> {0, 1}] : \A v \in BoolVars : val[v] \in {Unbound, m[v]}}

\* C3: with one relation alone encoded and the propagator posted, binding
\* the operands ends in a branch failure exactly when the assignment violates
\* the relation: a failure is raised only under bindings no completion of
\* which satisfies the relation, and once every operand is bound without a
\* failure the relation holds.
C3_TruthTable ==
  (phase = "search" /\ Len(calls) = 1 /\ calls[1].args # <<>>)
    => LET c == calls[1]
       IN  /\ failed
                => \A m \in Completions : ~Holds(c.op, ArgVals(m, c.args))
           /\ (~failed /\ \A i \in 1 .. Len(c.args) :
                             val[c.args[i].var] # Unbound)
                => Holds(c.op, ArgVals(val, c.args))

\* C4: A is bound at trail depth d, the host backtracks past that bind, and
\* a different registered variable B is bound next: the assumptions given to
\* solve for B hold B's literal at position d (counted from 0), the d
\* literals that preceded A, and no literal of A.
C4_BacktrackIsolation ==
  [][\A B \in BoolVars :
        (/\ phase = "search"
         /\ val[B] = Unbound /\ val'[B] # Unbound
         /\ demons[B] # <<>>
         /\ undone # NoBind /\ undone.var # B
         /\ num_bound_literals_ = undone.depth)
        => /\ lastAssumps' # <<>>
           /\ LET assumps == lastAssumps'[1]
                  d == undone.depth
              IN  /\ Len(assumps) = d + 1
                  /\ LitVar(assumps[d + 1]) = indices_[B]
                  /\ SubSeq(assumps, 1, d) = undone.prefix
                  /\ \A i \in 1 .. Len(assumps) :
                        LitVar(assumps[i]) # indices_[undone.var]
    ]_vars

C4_Witness ==
  /\ undone # NoBind
  /\ undone.depth = 1
  /\ Len(lastAssumps) = 1
  /\ Len(lastAssumps[1]) = 2
  /\ vars_[LitVar(lastAssumps[1][2]) + 1] # undone.var
  /\ Len(bound_literals_) = 2
  /\ ~failed

ConjunctionABT ==
  /\ Len(calls) = 1
  /\ calls[1].op = "AddBoolAndEqVar"
  /\ calls[1].args = <<Plain("a"), Plain("b"), Plain("t")>>

\* C6: with AddBoolAndEqVar(a,b,t) encoded and the propagator posted, a and b
\* bound to true raise no failure; binding t to false then raises one, and
\* binding t to true raises none.
C6_ConjunctionScenario ==
  (phase = "search" /\ ConjunctionABT /\ val["a"] = 1 /\ val["b"] = 1)
    => (failed <=> val["t"] = 0)

C6_Witness ==
  /\ phase = "search" /\ ConjunctionABT
  /\ val = [v \in BoolVars |-> 1]
  /\ ~failed
  /\ undone.var = "t" /\ undone.value = 0 /\ undone.afterFailure
  /\ undone.depth = 2
  /\ Len(lastAssumps) = 1

SamePair(x, y) == x = y \/ x = <<y[2], y[1]>>
EqAndNot(i, j) ==
  /\ calls[i].op = "AddBoolEq"
  /\ calls[j].op = "AddBoolNot"
  /\ SamePair(calls[i].args, calls[j].args)

\* C7: with AddBoolEq(X,Y) and AddBoolNot(X,Y) both encoded and the
\* propagator posted, the first bind of X or of Y, to either value, raises a
\* branch failure in that bind's callback.
C7_ImmediateContradiction ==
  [][\A i, j \in 1 .. Len(calls) :
        (/\ EqAndNot(i, j)
         /\ phase = "search" /\ ~failed
         /\ \E k \in 1 .. 2 :
               /\ val[calls[i].args[k].var] = Unbound
               /\ val'[calls[i].args[k].var] # Unbound)
        => failed'
    ]_vars

C7_Witness ==
  /\ \E i, j \in 1 .. Len(calls) :
        EqAndNot(i, j) /\ calls[i].args = <<Plain("a"), Plain("b")>>
  /\ Len(clauses) = 4
  /\ phase = "search" /\ failed
  /\ val["a"] = Unbound /\ val["b"] = 1 /\ val["t"] = Unbound
  /\ lastAssumps = << <<3>> >>

\* C8: when the clauses added are unsatisfiable on their own, Post followed
\* by InitialPropagate raises a branch failure, whatever the variables'
\* bound state at attachment.
C8_RootContradiction ==
  [][(phase = "posted" /\ phase' = "search"
        /\ ~Solve(nVars, clauses, <<>>))
       => failed'
    ]_vars

\* C11: with all operands valid, AddBoolOrArrayEqualTrue(v1..vn) appends the
\* one clause (v1 ... vn) and AddBoolAndArrayEqualFalse(v1..vn) the one clause
\* (~v1 ... ~vn): one literal per operand, in operand order, nothing else.
C11_SingleClauseEncoders ==
  [][(IsCallStep /\ AllBoolean(NewCall.args)
        /\ NewCall.op \in {"AddBoolOrArrayEqualTrue",
                           "AddBoolAndArrayEqualFalse"})
       => /\ \A i \in 1 .. Len(NewCall.args) :
                NewCall.args[i].var \in DOMAIN indices_'
          /\ Appended =
               << [i \in 1 .. Len(NewCall.args) |->
                     IF NewCall.op = "AddBoolOrArrayEqualTrue"
                     THEN RegLit(NewCall.args[i])
                     ELSE Compl(RegLit(NewCall.args[i]))] >>
    ]_vars

C11_Witness ==
  /\ Len(calls) = 1
  /\ calls[1].op = "AddBoolAndArrayEqualFalse"
  /\ calls[1].args = <<Plain("b"), Negated("a")>>
  /\ vars_ = <<"a", "b">>
  /\ clauses = << <<3, 0>> >>

\* C17: an encoder call that reports failure has mutated nothing: registry
\* and clause database are the same before and after it.
C17_FailureMutatesNothing ==
  [][(IsCallStep /\ ~NewCall.result)
       => UNCHANGED <<registry, clauses>>]_vars

\* C20: vars_ and indices_ are mutually inverse and dense: both have as many
\* entries as engine variables were allocated, and the variable at position
\* i of vars_ (counted from 0) is mapped to engine variable i.
C20_RegistryIndex ==
  /\ Len(vars_) = nVars
  /\ Cardinality(DOMAIN indices_) = nVars
  /\ \A i \in 1 .. Len(vars_) :
        vars_[i] \in DOMAIN indices_ /\ indices_[vars_[i]] = i - 1
  /\ \A v \in DOMAIN indices_ :
        indices_[v] \in 0 .. nVars - 1 /\ vars_[indices_[v] + 1] = v

C20_Witness ==
  /\ vars_ = <<"b", "a">>
  /\ nVars = 2
  /\ fetched.expr = Plain("w")
  /\ Len(calls) = 1
  /\ calls[1].op = "AddBoolOrArrayEqualTrue"
  /\ calls[1].args = <<Plain("b"), Negated("a")>>

\* The host variable an engine literal refers to.
VarOfLit(p) == vars_[LitVar(p) + 1]
LastOf(seq) == seq[Len(seq)]
IsPrefix(x, y) == Len(x) <= Len(y) /\ SubSeq(y, 1, Len(x)) = x

\* C12: the literal a bound callback appends for v is the registry literal of
\* v un-negated when v is bound to 1, and its complement when v is bound to 0.
C12_BindPolarity ==
  \A k \in 1 .. Len(lastAssumps) :
     LET p == LastOf(lastAssumps[k])
         v == VarOfLit(p)
     IN  p = 2 * indices_[v] + (IF val[v] = 1 THEN 0 ELSE 1)

\* C13: each bound callback raises the counter by exactly one and only a host
\* backtrack lowers it; every assumption list given to solve is as long as
\* the counter at that call and is the sequence, in delivery order, of the
\* literals of the callbacks run on the current branch; the trail is never
\* shorter than the counter.
C13_TrailInvariant ==
  [][/\ (val' # val /\ Len(stack') = Len(stack)) \/ phase = "posted"
          => num_bound_literals_'
               = num_bound_literals_ + Len(lastAssumps')
     /\ (val' = val /\ phase # "posted" /\ Len(stack') >= Len(stack))
          => num_bound_literals_' = num_bound_literals_
     /\ num_bound_literals_' < num_bound_literals_
          => Len(stack') = Len(stack) - 1
     /\ \A k \in 1 .. Len(lastAssumps') :
           LET later == Len(lastAssumps') - k
           IN  /\ Len(lastAssumps'[k]) = num_bound_literals_' - later
               /\ lastAssumps'[k]
                    = SubSeq(delivered', 1, Len(delivered') - later)
     /\ Len(bound_literals_') >= num_bound_literals_'
    ]_vars

C13_Witness ==
  /\ undone # NoBind /\ undone.afterFailure
  /\ undone.depth = 1
  /\ num_bound_literals_ = 2
  /\ Len(lastAssumps) = 1
  /\ delivered = lastAssumps[1]
  /\ VarOfLit(delivered[2]) = undone.var
  /\ ~failed

\* C14: an UNSAT answer raises the failure and ends the call: no solve call
\* and no trail or counter change follows it (InitialPropagate replays
\* nothing more); after the host backtracks, the next bind is checked on the
\* literals that preceded the abandoned bind plus its own, and can succeed.
C14_FailureStopsCall ==
  [][/\ \A k \in 1 .. Len(lastAssumps') - 1 :
           Solve(nVars', clauses', lastAssumps'[k])
     /\ lastAssumps' # <<>>
          => failed' = ~Solve(nVars', clauses', LastOf(lastAssumps'))
     /\ (failed' /\ ~failed)
          => /\ lastAssumps' # <<>>
             /\ bound_literals_' = LastOf(lastAssumps')
             /\ num_bound_literals_' = Len(bound_literals_')
     /\ (failed /\ ~failed')
          => /\ Len(stack') = Len(stack) - 1
             /\ num_bound_literals_' = LastOf(stack).num
             /\ num_bound_literals_' < num_bound_literals_
     /\ (undone.afterFailure /\ lastAssumps = <<>> /\ lastAssumps' # <<>>
           /\ num_bound_literals_ = undone.depth)
          => /\ Len(lastAssumps'[1]) = undone.depth + 1
             /\ SubSeq(lastAssumps'[1], 1, undone.depth) = undone.prefix
    ]_vars

C14_Witness ==
  /\ undone.afterFailure
  /\ ~failed
  /\ Len(lastAssumps) = 1
  /\ Len(lastAssumps[1]) = undone.depth + 1
  /\ VarOfLit(LastOf(lastAssumps[1])) = undone.var
  /\ val[undone.var] # undone.value
  /\ Len(bound_literals_) = 3

BoundAtAttach ==
  LET IsBound(v) == val[v] # Unbound IN SelectSeq(vars_, IsBound)

\* C15: InitialPropagate runs the bound callback once for each registered
\* variable bound at attachment, in registration order, and for no unbound
\* one; without a failure the counter then equals the number of those
\* variables and the trail holds one literal for each.
C15_InitialReplay ==
  [][(phase = "posted" /\ phase' = "search")
       => /\ Len(lastAssumps') <= Len(BoundAtAttach)
          /\ \A k \in 1 .. Len(lastAssumps') :
                /\ Len(lastAssumps'[k]) = k
                /\ VarOfLit(lastAssumps'[k][k]) = BoundAtAttach[k]
          /\ ~failed'
               => /\ Len(lastAssumps') = Len(BoundAtAttach)
                  /\ num_bound_literals_' = Len(BoundAtAttach)
                  /\ Len(bound_literals_') = Len(BoundAtAttach)
                  /\ \A k \in 1 .. Len(BoundAtAttach) :
                        VarOfLit(bound_literals_'[k]) = BoundAtAttach[k]
    ]_vars

C15_Witness ==
  /\ phase = "search" /\ ~failed /\ stack = <<>>
  /\ Len(vars_) = 3
  /\ val[vars_[1]] # Unbound /\ val[vars_[2]] = Unbound
  /\ val[vars_[3]] # Unbound
  /\ Len(lastAssumps) = 2
  /\ num_bound_literals_ = 2

\* C16: Post subscribes exactly one bound callback on each variable that is
\* registered when it runs (and none elsewhere), and the callback of v, when
\* fired, resolves to v: it appends a literal on v's engine variable.
C16_OneCallbackPerVariable ==
  [][/\ (phase = "build" /\ phase' = "posted")
          => \A v \in BoolVars :
                /\ Len(demons'[v]) = (IF v \in DOMAIN indices_ THEN 1 ELSE 0)
                /\ \A k \in 1 .. Len(demons'[v]) :
                      vars_[demons'[v][k] + 1] = v
     /\ \A v \in BoolVars :
           (phase = "search" /\ val[v] = Unbound /\ val'[v] # Unbound
              /\ v \in DOMAIN indices_)
             => /\ Len(lastAssumps') = 1
                /\ LitVar(LastOf(lastAssumps'[1])) = indices_[v]
                /\ LastOf(bound_literals_') = LastOf(lastAssumps'[1])
    ]_vars

C16_Witness ==
  /\ phase = "search"
  /\ vars_ = <<"t", "a", "b">>
  /\ val["t"] = Unbound /\ val["a"] = Unbound /\ val["b"] = 1
  /\ lastAssumps = << <<5>> >>

\* C18: the registry mapping and the clause database only grow: no bind
\* callback, failure or backtrack removes or remaps a mapping or retracts a
\* clause, and a backtrack changes nothing of the propagator but the counter.
C18_RegistryAndClausesGrow ==
  [][/\ \A v \in DOMAIN indices_ :
           v \in DOMAIN indices_' /\ indices_'[v] = indices_[v]
     /\ IsPrefix(vars_, vars_')
     /\ IsPrefix(clauses, clauses')
     /\ nVars' >= nVars
     /\ Len(stack') < Len(stack)
          => UNCHANGED <<registry, clauses, bound_literals_>>
     /\ (val' # val \/ failed' # failed)
          => UNCHANGED <<registry, clauses>>
    ]_vars

C18_Witness ==
  /\ phase = "search" /\ stack = <<>>
  /\ \E c \in 1 .. Len(clauses) : clauses[c] = <<>>
  /\ "t" \in DOMAIN indices_
  /\ undone # NoBind
  /\ failed

\* C19: the propagator never changes a host variable: Post and
\* InitialPropagate leave every value as it was, and a bind step changes the
\* one variable the host bound and no other, also when the clauses imply the
\* value of an unbound variable.
C19_CheckOnly ==
  [][/\ phase \in {"build", "posted"} /\ phase' # phase
          => val' = val /\ stack' = stack
     /\ Len(stack') >= Len(stack)
          => /\ \A v \in BoolVars : val[v] # Unbound => val'[v] = val[v]
             /\ Cardinality({v \in BoolVars : val'[v] # val[v]}) <= 1
    ]_vars

C19_Witness ==
  /\ phase = "search" /\ ~failed
  /\ lastAssumps # <<>>
  /\ num_bound_literals_ = 1
  /\ \E u \in DOMAIN indices_ :
        /\ val[u] = Unbound
        /\ ~Solve(nVars, clauses,
                  Append(SubSeq(bound_literals_, 1, num_bound_literals_),
                         mkLit(indices_[u], TRUE)))

====
